---- MODULE Spec2Model ----
(***************************************************************************)
(* Task Management API (src/app/main.py): five FastAPI handlers over one   *)
(* MySQL table `tasks`.  Every handler opens its own connection, runs its  *)
(* statements one at a time and closes the connection in `finally`.        *)
(* Requests of different clients interleave at statement granularity: a    *)
(* step of the model is one statement that reads or changes the committed  *)
(* table (the commit of a write, a SELECT).  What a handler does on its    *)
(* own connection before that statement (connect, cursor, the uncommitted  *)
(* execute) is invisible to the other connections and belongs to the step. *)
(***************************************************************************)
EXTENDS Integers, FiniteSets, Sequences, TLC

\* ------------------------------------------------------------------ bounds
Clients == {"c1", "c2"}
MaxId == 2          \* ids the AUTO_INCREMENT counter may hand out
MaxClock == 1       \* ticks of the database clock
MaxLeaks == 1       \* connections that may stay open for good

NULL == "<null>"
\* Request bodies as JSON objects: an omitted key is absent from the record.
Bodies == { [title |-> "a"],
            [title |-> "b", description |-> "d", completed |-> TRUE] }
NoBody == [title |-> ""]
TaskIds == 1..MaxId

VARIABLES table, nextId, clock, pc, req, cursor, openConns,
          last, watch, okCreated, okDeleted, badWrite, lastOK

vars == <<table, nextId, clock, pc, req, cursor, openConns,
          last, watch, okCreated, okDeleted, badWrite, lastOK>>

\* ------------------------------------------------------------ data model
\* TaskBase: pydantic fills the defaults of omitted fields.
TaskBase(body) ==
    [title       |-> body.title,
     description |-> IF "description" \in DOMAIN body THEN body.description ELSE NULL,
     completed   |-> IF "completed" \in DOMAIN body THEN body.completed ELSE FALSE]

\* Python bool -> TINYINT(1) on the way in, TINYINT(1) -> bool in the Task model.
ToSql(b) == IF b THEN 1 ELSE 0
FromSql(i) == i # 0

NoRow == [id |-> 0, title |-> "", description |-> NULL, completed |-> 0,
          created_at |-> 0, updated_at |-> 0]

\* Task: the response model applied to a row of the dictionary cursor.
Task(row) ==
    [id |-> row.id, title |-> row.title, description |-> row.description,
     completed |-> FromSql(row.completed),
     created_at |-> row.created_at, updated_at |-> row.updated_at]

\* The fields a Create or Update writes, as a Get reads them back.
Written(body) == TaskBase(body)
Fields(t) == [title |-> t.title, description |-> t.description, completed |-> t.completed]

\* ------------------------------------------------------------ the schema
\* id INT AUTO_INCREMENT PRIMARY KEY: the counter only grows, also past an
\* INSERT that is rolled back or a row that is deleted
AutoIncrement(n) == n + 1
\* created_at / updated_at DEFAULT CURRENT_TIMESTAMP
SchemaDefaults(now) == [created_at |-> now, updated_at |-> now]
\* updated_at ... ON UPDATE CURRENT_TIMESTAMP: refreshed when the row changes
OnUpdateTimestamp(old, new, now) ==
    IF new # old THEN [new EXCEPT !.updated_at = now] ELSE new

\* ------------------------------------------------------------ statements
\* INSERT INTO tasks (title, description, completed) VALUES (%s, %s, %s)
InsertStmt(id, t, now) ==
    [id |-> id, title |-> t.title, description |-> t.description,
     completed |-> ToSql(t.completed),
     created_at |-> SchemaDefaults(now).created_at,
     updated_at |-> SchemaDefaults(now).updated_at]

\* the row rewritten as a new one (REPLACE INTO in place of UPDATE)
UpdateStmtRecreate(old, t, now) ==
    [id |-> old.id, title |-> t.title, description |-> t.description,
     completed |-> ToSql(t.completed), created_at |-> now, updated_at |-> now]
\* UPDATE tasks SET title = %s, description = %s, completed = %s WHERE id = %s
UpdateStmt(old, t, now) ==
    OnUpdateTimestamp(old,
        [old EXCEPT !.title = t.title, !.description = t.description,
                    !.completed = ToSql(t.completed)], now)

\* cursor.rowcount after UPDATE: MySQL counts the rows the statement changed,
\* not the rows its WHERE matched (the connection sets no CLIENT_FOUND_ROWS)
UpdateRowcount(tbl, id, t, now) ==
    IF id \in DOMAIN tbl /\ UpdateStmt(tbl[id], t, now) # tbl[id] THEN 1 ELSE 0

\* DELETE with the comparison inverted
DeleteStmtOthers(tbl, id) == DOMAIN tbl \ {id}
\* DELETE FROM tasks WHERE id = %s: the ids the statement removes
DeleteStmt(tbl, id) == DOMAIN tbl \cap {id}

\* SELECT * FROM tasks WHERE id = %s ; fetchone(): {} stands for None
SelectById(tbl, id) == IF id \in DOMAIN tbl THEN {tbl[id]} ELSE {}

\* fetchone() in place of fetchall()
SelectAllFirst(tbl) ==
    IF DOMAIN tbl = {} THEN {}
    ELSE {tbl[CHOOSE i \in DOMAIN tbl : \A j \in DOMAIN tbl : i <= j]}
\* SELECT * FROM tasks ; fetchall()
SelectAll(tbl) == {tbl[i] : i \in DOMAIN tbl}

\* --------------------------------------------------------------- responses
NoResp == [status |-> 0, detail |-> "", rows |-> {}]
\* the connection failure reported as 503
ConnFailedAs503 == [status |-> 503, detail |-> "Database connection failed", rows |-> {}]
\* raise HTTPException(status_code=500, detail="Database connection failed")
ConnFailed == [status |-> 500, detail |-> "Database connection failed", rows |-> {}]
\* except Error as e: raise HTTPException(status_code=500, detail=str(e))
DriverError == [status |-> 500, detail |-> "driver error", rows |-> {}]
\* raise HTTPException(status_code=404, detail="Task not found")
NotFound == [status |-> 404, detail |-> "Task not found", rows |-> {}]
\* an exception that is no HTTPException, or a body the response model rejects
InternalError == [status |-> 500, detail |-> "Internal Server Error", rows |-> {}]
\* return {"message": "Task deleted successfully"}
Deleted == [status |-> 200, detail |-> "Task deleted successfully", rows |-> {}]
\* response_model=Task on what fetchone() returned
TaskResponse(rows) ==
    IF rows = {} THEN InternalError
    ELSE [status |-> 200, detail |-> "", rows |-> {Task(r) : r \in rows}]
\* response_model=List[Task] on what fetchall() returned
ListResponse(rows) == [status |-> 200, detail |-> "", rows |-> {Task(r) : r \in rows}]

\* ------------------------------------------------------------ requests
IsWrite(op) == op \in {"create", "update", "delete"}
NoCursor == [rowcount |-> 0, lastrowid |-> 0]
\* A request in progress: its inputs (op, task_id, body) and what the handler
\* has done so far (conn: the state of its connection; sql: statements run;
\* faulted: a connector or driver failure hit it; delSeen: for a Get or List,
\* the ids whose Delete had answered 200 when it arrived; existed, prevCreated, prevUpdated, execTime: the row its
\* statement found and the clock then; wid, wrote: the id it wrote and whether
\* the table changed; older, newerOK: order of commits on one id).
NoReq == [op |-> "none", task_id |-> 0, body |-> NoBody,
          conn |-> "none", sql |-> 0, faulted |-> FALSE,
          delSeen |-> {}, existed |-> FALSE,
          prevCreated |-> 0, prevUpdated |-> 0, execTime |-> 0,
          wid |-> 0, wrote |-> FALSE, newerOK |-> FALSE, older |-> {}]
NewReq(op, id, body) ==
    [NoReq EXCEPT !.op = op, !.task_id = id, !.body = body, !.delSeen = IF IsWrite(op) THEN {} ELSE okDeleted,
                  !.execTime = clock, !.existed = id \in DOMAIN table,
                  !.prevCreated = IF id \in DOMAIN table THEN table[id].created_at ELSE 0,
                  !.prevUpdated = IF id \in DOMAIN table THEN table[id].updated_at ELSE 0]
NoObs == [client |-> "none", req |-> NoReq, resp |-> NoResp,
          settled |-> FALSE, expect |-> {}, created |-> {}, live |-> {},
          clean |-> FALSE]

InFlight == {c \in Clients : pc[c] # "idle"}
\* a committed write on id whose handler has not answered yet
Unsettled(id) == {c \in Clients : pc[c] = "reread" /\ req[c].wid = id}
\* the earlier of them, as the commit of client c on id sees them
Older(c, id) == IF "writes" \in watch THEN Unsettled(id) \ {c} ELSE {}

\* The state after startup: init_db() has created the empty tasks table.
\* `w` names the histories a run records next to the program's state: "ids"
\* (which Creates and Deletes answered 200), "writes" (the last Create or
\* Update of each id that answered 200) and "conns" (the connections open).
InitWatching(w) ==
    /\ watch = w
    /\ table = << >>
    /\ nextId = 1
    /\ clock = 0
    /\ pc = [c \in Clients |-> "idle"]
    /\ req = [c \in Clients |-> NoReq]
    /\ cursor = [c \in Clients |-> NoCursor]
    /\ openConns = 0
    /\ last = NoObs
    /\ okCreated = {}
    /\ okDeleted = {}
    /\ badWrite = FALSE
    /\ lastOK = [i \in TaskIds |-> {}]

Init == InitWatching({})
InitIds == InitWatching({"ids"})
InitWrites == InitWatching({"writes"})
InitConns == InitWatching({"conns"})

\* The handler of client c returns answer rsp for request rq.
Return(c, rq, rsp) ==
    LET ok == rsp.status = 200
        okWrite == ok /\ rq.op \in {"create", "update"} /\ "writes" \in watch
        ids == "ids" \in watch
    IN  /\ pc' = [pc EXCEPT ![c] = "idle"]
        /\ req' = [d \in Clients |->
                     IF d = c THEN NoReq
                     ELSE [req[d] EXCEPT
                             !.older = @ \ {c},
                             !.newerOK = @ \/ (okWrite /\ d \in rq.older)]]
        /\ cursor' = [cursor EXCEPT ![c] = NoCursor]
        /\ last' = [client |-> c, req |-> rq, resp |-> rsp,
                    settled |-> IF rq.op = "list"
                                THEN \A d \in Clients \ {c} : pc[d] # "reread"
                                ELSE Unsettled(rq.task_id) \ {c} = {},
                    expect |-> IF rq.task_id \in TaskIds THEN lastOK[rq.task_id] ELSE {},
                    created |-> okCreated,
                    live |-> okCreated \ okDeleted,
                    clean |-> ~badWrite]
        /\ watch' = watch
        /\ okCreated' = IF ids /\ ok /\ rq.op = "create" THEN okCreated \cup {rq.wid} ELSE okCreated
        /\ okDeleted' = IF ids /\ ok /\ rq.op = "delete" THEN okDeleted \cup {rq.task_id} ELSE okDeleted
        /\ badWrite' = (badWrite \/ (ids /\ IsWrite(rq.op) /\ ~ok))
        /\ lastOK' = IF okWrite /\ ~rq.newerOK /\ rq.wid \in TaskIds
                     THEN [lastOK EXCEPT ![rq.wid] = {Fields(Written(rq.body))}]
                     ELSE lastOK

\* The connections open in the process, after `delta` more were opened than closed.
Connections(delta) ==
    openConns' = IF "conns" \in watch THEN openConns + delta ELSE openConns

\* finally: cursor.close(); conn.close() -- then the handler returns
CloseAndReturn(c, rq, rsp) ==
    /\ Connections(IF pc[c] = "idle" THEN 0 ELSE -1)
    /\ Return(c, [rq EXCEPT !.conn = "closed"], rsp)

\* The handler of client c committed and goes on to its re-read SELECT.
Goto(c, next, rq, cur) ==
    /\ pc' = [pc EXCEPT ![c] = next]
    /\ req' = [req EXCEPT ![c] = rq]
    /\ cursor' = [cursor EXCEPT ![c] = cur]
    /\ Connections(1)
    /\ UNCHANGED <<last, watch, okCreated, okDeleted, badWrite, lastOK>>

\* The server has written out the answer of the handler that returned last.
Sent == last = NoObs

\* conn = get_db_connection(); if not conn: raise 500
NoConnection(c, rq) ==
    /\ Connections(0)
    /\ Return(c, [rq EXCEPT !.faulted = TRUE, !.conn = "none"], ConnFailed)

\* try: cursor = conn.cursor(...) raises Error; `finally` then hits the unbound
\* name `cursor`: the UnboundLocalError replaces the HTTPException and
\* conn.close() is never reached.
CursorRaises(c, rq) ==
    /\ "conns" \in watch => openConns - Cardinality(InFlight) < MaxLeaks
    /\ Connections(1)
    /\ Return(c, [rq EXCEPT !.faulted = TRUE, !.conn = "open"], InternalError)

\* cursor.execute(...) raises Error before anything is committed:
\* except Error -> 500 with str(e); finally closes cursor and connection.
ExecuteRaises(c, rq) ==
    /\ CloseAndReturn(c, [rq EXCEPT !.faulted = TRUE, !.sql = @ + 1], DriverError)

\* The ways a handler fails before its first statement takes effect.
FailsEarly(c, rq) ==
    /\ pc[c] = "idle"
    /\ UNCHANGED <<table, nextId, clock>>
    /\ \/ NoConnection(c, rq)
       \/ CursorRaises(c, rq)
       \/ ExecuteRaises(c, rq)

\* ------------------------------------------------------------ create_task
\* get_db_connection .. cursor.execute(INSERT) .. conn.commit()
CreateWrite(c, body) ==
    LET rq == NewReq("create", 0, body)
        row == InsertStmt(nextId, TaskBase(body), clock)
        done == [rq EXCEPT !.sql = 1, !.wid = nextId]
    IN  /\ pc[c] = "idle" /\ Sent
        /\ nextId <= MaxId
        /\ \/ FailsEarly(c, rq)
           \/ \* conn.commit() raises Error: nothing was committed, the id is used up
              /\ table' = table
              /\ CloseAndReturn(c, [done EXCEPT !.faulted = TRUE], DriverError)
              /\ nextId' = AutoIncrement(nextId)
              /\ UNCHANGED clock
           \/ /\ table' = table @@ (nextId :> row)
              /\ nextId' = AutoIncrement(nextId)
              /\ Goto(c, "reread",
                      [done EXCEPT !.wrote = TRUE, !.conn = "open",
                                   !.older = Older(c, nextId)],
                      [rowcount |-> 1, lastrowid |-> nextId])
              /\ UNCHANGED clock

\* task_id = cursor.lastrowid; SELECT ... WHERE id = task_id; return fetchone()
CreateReread(c) ==
    /\ Sent /\ pc[c] = "reread" /\ req[c].op = "create"
    /\ UNCHANGED <<table, nextId, clock>>
    /\ \/ ExecuteRaises(c, req[c])
       \/ /\ CloseAndReturn(c, [req[c] EXCEPT !.sql = @ + 1],
                            TaskResponse(SelectById(table, cursor[c].lastrowid)))

\* ------------------------------------------------------------- read_tasks
ReadTasks(c) ==
    LET rq == NewReq("list", 0, NoBody)
    IN  /\ pc[c] = "idle" /\ Sent
        /\ \/ FailsEarly(c, rq)
           \/ /\ UNCHANGED <<table, nextId, clock>>
              /\ CloseAndReturn(c, [rq EXCEPT !.sql = 1],
                        ListResponse(SelectAll(table)))

\* -------------------------------------------------------------- read_task
ReadTask(c, id) ==
    LET rq == NewReq("get", id, NoBody)
        rows == SelectById(table, id)
    IN  /\ pc[c] = "idle" /\ Sent
        /\ \/ FailsEarly(c, rq)
           \/ /\ UNCHANGED <<table, nextId, clock>>
              /\ CloseAndReturn(c, [rq EXCEPT !.sql = 1],
                        IF rows = {} THEN NotFound ELSE TaskResponse(rows))

\* ------------------------------------------------------------ update_task
\* get_db_connection .. cursor.execute(UPDATE) .. conn.commit() ..
\* if cursor.rowcount == 0: raise 404
UpdateWrite(c, id, body) ==
    LET rq == NewReq("update", id, body)
        t == TaskBase(body)
        exists == id \in DOMAIN table
        new == IF exists THEN [table EXCEPT ![id] = UpdateStmt(table[id], t, clock)]
               ELSE table
        rowcount == UpdateRowcount(table, id, t, clock)
        done == [rq EXCEPT !.sql = 1, !.wid = id]
    IN  /\ pc[c] = "idle" /\ Sent
        /\ UNCHANGED <<nextId, clock>>
        /\ \/ FailsEarly(c, rq)
           \/ \* conn.commit() raises Error: nothing was committed
              /\ table' = table
              /\ CloseAndReturn(c, [done EXCEPT !.faulted = TRUE], DriverError)
           \/ /\ table' = new
              /\ IF rowcount = 0
                 THEN CloseAndReturn(c, [done EXCEPT !.wrote = new # table], NotFound)
                 ELSE Goto(c, "reread",
                           [done EXCEPT !.wrote = new # table, !.conn = "open",
                                        !.older = Older(c, id)],
                           [rowcount |-> rowcount, lastrowid |-> 0])

\* SELECT ... WHERE id = task_id; return fetchone()
UpdateReread(c) ==
    /\ Sent /\ pc[c] = "reread" /\ req[c].op = "update"
    /\ UNCHANGED <<table, nextId, clock>>
    /\ \/ ExecuteRaises(c, req[c])
       \/ /\ CloseAndReturn(c, [req[c] EXCEPT !.sql = @ + 1],
                            TaskResponse(SelectById(table, req[c].task_id)))

\* ------------------------------------------------------------ delete_task
\* get_db_connection .. cursor.execute(DELETE) .. conn.commit() ..
\* if cursor.rowcount == 0: raise 404; return the message
DeleteTask(c, id) ==
    LET rq == NewReq("delete", id, NoBody)
        ids == DeleteStmt(table, id)
        new == [i \in DOMAIN table \ ids |-> table[i]]
        rowcount == Cardinality(ids)
        done == [rq EXCEPT !.sql = 1]
    IN  /\ pc[c] = "idle" /\ Sent
        /\ UNCHANGED <<nextId, clock>>
        /\ \/ FailsEarly(c, rq)
           \/ \* conn.commit() raises Error: nothing was committed
              /\ table' = table
              /\ CloseAndReturn(c, [done EXCEPT !.faulted = TRUE], DriverError)
           \/ /\ table' = new
              /\ CloseAndReturn(c, [done EXCEPT !.wrote = new # table],
                                IF rowcount = 0 THEN NotFound ELSE Deleted)

\* The database clock (CURRENT_TIMESTAMP) advances.
Tick ==
    /\ Sent
    /\ clock < MaxClock
    /\ clock' = clock + 1
    /\ UNCHANGED <<table, nextId, pc, req, cursor, openConns,
                   last, watch, okCreated, okDeleted, badWrite, lastOK>>

\* The response of the handler that returned goes out to its client.
SendResponse ==
    /\ ~Sent
    /\ last' = NoObs
    /\ UNCHANGED <<table, nextId, clock, pc, req, cursor, openConns,
                   watch, okCreated, okDeleted, badWrite, lastOK>>

\* The handlers and the server, within one tick of the database clock.
Serve ==
    \/ \E c \in Clients, b \in Bodies : CreateWrite(c, b)
    \/ \E c \in Clients : CreateReread(c)
    \/ \E c \in Clients : ReadTasks(c)
    \/ \E c \in Clients, id \in TaskIds : ReadTask(c, id)
    \/ \E c \in Clients, id \in TaskIds, b \in Bodies : UpdateWrite(c, id, b)
    \/ \E c \in Clients : UpdateReread(c)
    \/ \E c \in Clients, id \in TaskIds : DeleteTask(c, id)
    \/ SendResponse

Next == Serve \/ Tick

\* The program, recording no history.
Spec == Init /\ [][Next]_vars
\* The program recording which ids were created and deleted.  No handler
\* reads a timestamp, so these runs stay within one tick of the clock.
SpecIds == InitIds /\ [][Serve]_vars
\* The program recording the last successful write of each id.
SpecWrites == InitWrites /\ [][Serve]_vars
\* The program counting its open connections.
SpecConns == InitConns /\ [][Serve]_vars
\* The program recording the created ids, with the clock running.
SpecCreate == InitIds /\ [][Next]_vars

\* ================================================================ claims
Answer == last.resp
Asked == last.req
Got(op) == last # NoObs /\ Asked.op = op

\* ---- C1 -----------------------------------------------------------------
\* C1 (as stated): once a Delete of an id has answered 200, every later Get of
\* that id answers 404, no later List holds a task with that id, and the id is
\* never the id of a row again.
C1_DeletedStaysGone ==
    /\ (Got("get") /\ Asked.task_id \in Asked.delSeen) => Answer.status = 404
    /\ Got("list") => \A r \in Answer.rows : r.id \notin Asked.delSeen
    /\ okDeleted \cap DOMAIN table = {}

\* C1 (amended): once a Delete of an id has answered 200, every later Get of
\* that id answers 404, or 500 when its connection or its SELECT fails, and
\* never 200; no later List holds a task with that id; the id is never the id
\* of a row again.
C1_DeletedNeverRead ==
    /\ (Got("get") /\ Asked.task_id \in Asked.delSeen) =>
          /\ Answer.status \in {404, 500}
          /\ Answer.status = 500 <=> Asked.faulted
          /\ Answer.rows = {}
    /\ Got("list") => \A r \in Answer.rows : r.id \notin Asked.delSeen
    /\ okDeleted \cap DOMAIN table = {}

\* A Get of a deleted id answers 404 while a task created after it exists.
C1_Witness ==
    /\ Got("get") /\ Asked.task_id \in Asked.delSeen /\ Answer.status = 404
    /\ \E i \in DOMAIN table : i > Asked.task_id

\* ---- C2 -----------------------------------------------------------------
\* C2: a Get that answers 200 while no write of that id awaits its answer
\* returns the title, description and completed of the most recent Create or
\* Update of that id that answered 200, with the defaults of omitted fields.
C2_GetReturnsLastWritten ==
    (Got("get") /\ Answer.status = 200 /\ last.settled) =>
        {Fields(r) : r \in Answer.rows} = last.expect

\* ---- C3 -----------------------------------------------------------------
\* C3: when every Create, Update and Delete so far has answered 200 and none
\* awaits its answer, the array a List returns has exactly one entry per task
\* created and not deleted since, and no other entry.
C3_ListIsLiveSet ==
    (Got("list") /\ Answer.status = 200 /\ last.clean /\ last.settled) =>
        /\ {r.id : r \in Answer.rows} = last.live
        /\ Cardinality(Answer.rows) = Cardinality(last.live)

\* A List after a Create, a second Create and a Delete of the first.
C3_Witness ==
    /\ Got("list") /\ Answer.status = 200 /\ last.clean /\ last.settled
    /\ Answer.rows # {} /\ okDeleted # {}

\* ---- C4 -----------------------------------------------------------------
\* C4: a Get, Update or Delete that meets no connector or driver failure
\* answers 404 exactly when no task with its id exists as its statement runs.
C4_NotFoundIffAbsent ==
    (last # NoObs /\ Asked.op \in {"get", "update", "delete"} /\ ~Asked.faulted) =>
        (Answer.status = 404 <=> ~Asked.existed)

\* ---- C5 -----------------------------------------------------------------
\* C5: a handler whose connector returns no connection answers 500 with
\* detail "Database connection failed", runs no statement, leaves the table,
\* the id counter and every other handler as they were, and is idle again.
C5_NoConnection ==
    [][(last = NoObs /\ last' # NoObs /\ last'.req.conn = "none") =>
          /\ last'.resp = [status |-> 500, detail |-> "Database connection failed",
                           rows |-> {}]
          /\ last'.req.sql = 0
          /\ table' = table /\ nextId' = nextId
          /\ pc' = pc /\ pc'[last'.client] = "idle"
          /\ openConns' = openConns]_vars

\* A handler found no connection while the table holds a task.
C5_Witness ==
    last # NoObs /\ Asked.conn = "none" /\ DOMAIN table # {}

\* ---- C6 -----------------------------------------------------------------
\* C6: the open connections are those of the handlers still running; a
\* handler that returned left its connection closed.
C6_ConnectionsClosed ==
    /\ openConns = Cardinality(InFlight)
    /\ last # NoObs => Asked.conn # "open"

\* ---- C7 -----------------------------------------------------------------
\* C7: a Create that answers 200 returns a non-null id no earlier Create
\* returned, the submitted title and description, completed false when
\* omitted, and created_at equal to updated_at.
C7_CreateReturnsSubmitted ==
    (Got("create") /\ Answer.status = 200) =>
        \A r \in Answer.rows :
            /\ r.id >= 1 /\ r.id \notin last.created
            /\ Fields(r) = Fields(Written(Asked.body))
            /\ ("completed" \notin DOMAIN Asked.body => r.completed = FALSE)
            /\ r.created_at = r.updated_at

\* ---- C8 -----------------------------------------------------------------
\* C8: an Update that answers 200 returns the id it was asked for, the
\* created_at the row had before, and an updated_at that is neither before
\* the row's previous updated_at nor before the time the UPDATE ran.
C8_UpdateKeepsIdentity ==
    (Got("update") /\ Answer.status = 200) =>
        \A r \in Answer.rows :
            /\ r.id = Asked.task_id
            /\ r.created_at = Asked.prevCreated
            /\ r.updated_at >= Asked.prevUpdated
            /\ r.updated_at >= Asked.execTime

\* An Update answered 200 with an updated_at later than the previous one.
C8_Witness ==
    /\ Got("update") /\ Answer.status = 200
    /\ \E r \in Answer.rows : r.updated_at > Asked.prevUpdated

\* ---- C9 -----------------------------------------------------------------
\* C9: a Create or Update whose write committed and that met no driver
\* failure answers 200 with the id and the fields it wrote.
C9_RereadReturnsOwnWrite ==
    (last # NoObs /\ Asked.op \in {"create", "update"} /\ Asked.wrote /\ ~Asked.faulted) =>
        /\ Answer.status = 200
        /\ \A r \in Answer.rows :
              r.id = Asked.wid /\ Fields(r) = Fields(Written(Asked.body))

\* ---- C10 ----------------------------------------------------------------
\* C10: a request that answers 404 or 500 has not changed the table.
C10_ErrorLeavesTable ==
    (last # NoObs /\ Answer.status \in {404, 500}) => ~Asked.wrote

====
